---- MODULE Spec2Model ----
(***************************************************************************)
(* A model of the finance simulator: the SQLite ledger store of            *)
(* src/database.py (init_database, migrate_from_json, load_data,           *)
(* save_data) and the aggregate calculations and page handlers of          *)
(* src/app.py.                                                             *)
(*                                                                         *)
(* Conventions.                                                            *)
(*   - A Python dict is a record.  A key that is absent (dict.get gives    *)
(*     None) and an SQL NULL are both the value None.                      *)
(*   - Money is a REAL column / a Python float; the model uses integers.   *)
(*   - A table is the sequence of its rows in rowid (insertion) order,     *)
(*     which is the order an unordered SELECT of SQLite returns them in.   *)
(*   - db is what is committed in budget_data.db; the statements of a      *)
(*     connection act on its own working copy until conn.commit().         *)
(***************************************************************************)
EXTENDS Integers, Sequences, FiniteSets, TLC

VARIABLES
  db,          \* committed contents of budget_data.db
  lock,        \* an unclosed connection still holds an open write transaction
  jsonFile,    \* contents of budget_data.json, or NoFile
  backupFile,  \* contents of budget_data.json.backup, or NoFile
  data,        \* st.session_state.data, the in-memory document, or NoData
  pc,          \* where the running call or script stands
  cont,        \* the caller a migration in progress returns to
  txn,         \* working copy of the connection of the save_data in progress
  arg,         \* the document save_data was called with
  step,        \* statements of save_data executed so far
  ret,         \* what the last completed call returned or raised, and after what
  lastSaved,   \* the document of the last committed save_data
  nTrue,       \* how many times migrate_from_json has returned True
  nMigrated,   \* how many times migrate_from_json has committed its inserts
  years        \* the simulator's slider

vars == <<db, lock, jsonFile, backupFile, data, pc, cont, txn, arg, step, ret,
          lastSaved, nTrue, nMigrated, years>>

-----------------------------------------------------------------------------
(* Bounds of the model *)

\* Records per collection in the documents handed to the store.
MaxRows == 2

-----------------------------------------------------------------------------
(* Values *)

None == "<None>"
NoFile == [kind |-> "absent"]
NoData == [kind |-> "nodata"]
NoDoc == [kind |-> "nodoc"]

\* Python truthiness of an optional string: None and "" are falsy.
Truthy(v) == v # None /\ v # ""

Range(s) == {s[i] : i \in 1..Len(s)}

Count(x, s) == Cardinality({i \in 1..Len(s) : s[i] = x})

\* The two sequences hold the same elements the same number of times.
SameBag(s, t) ==
  /\ Len(s) = Len(t)
  /\ \A x \in Range(s) \cup Range(t) : Count(x, s) = Count(x, t)

\* Amounts and balances are modelled as exact numbers: the rounding of the
\* floats that hold them is outside this model.
RECURSIVE SumAmount(_)
SumAmount(s) == IF s = <<>> THEN 0 ELSE Head(s).amount + SumAmount(Tail(s))

RECURSIVE SumBalance(_)
SumBalance(s) == IF s = <<>> THEN 0 ELSE Head(s).balance + SumBalance(Tail(s))

-----------------------------------------------------------------------------
(* The default document of load_data and of the Reset handler *)

\* A default document with a balance that is not zero.
SkeletonWithBalance ==
  [ net_worth |-> [ current |-> 0, savings_accounts |-> <<>>,
                    investment_account |-> 100, other_assets |-> 0 ],
    income |-> [ user_salary |-> 0, partner_salary |-> 0, salary_months |-> 14 ],
    fixed_expenses |-> <<>>,
    variable_expenses |-> <<>>,
    savings_contributions |-> <<>>,
    savings_recurring_monthly |-> <<>>,
    investment_contributions |-> <<>>,
    investment_recurring_monthly |-> <<>>,
    transactions |-> <<>> ]

Skeleton ==
  [ net_worth |-> [ current |-> 0, savings_accounts |-> <<>>,
                    investment_account |-> 0, other_assets |-> 0 ],
    income |-> [ user_salary |-> 0, partner_salary |-> 0, salary_months |-> 14 ],
    fixed_expenses |-> <<>>,
    variable_expenses |-> <<>>,
    savings_contributions |-> <<>>,
    savings_recurring_monthly |-> <<>>,
    investment_contributions |-> <<>>,
    investment_recurring_monthly |-> <<>>,
    transactions |-> <<>> ]

-----------------------------------------------------------------------------
(* The tables of budget_data.db *)

TableNames ==
  << "net_worth", "income", "fixed_expenses", "variable_expenses",
     "savings_contributions", "savings_recurring_monthly",
     "investment_contributions", "investment_recurring_monthly",
     "transactions" >>

EmptyTables == [t \in Range(TableNames) |-> <<>>]

\* budget_data.db before init_database has created the tables.
NoDatabase == [created |-> FALSE, tables |-> EmptyTables]

\* CREATE TABLE IF NOT EXISTS for every table, then commit.
init_database(dbv) == [dbv EXCEPT !.created = TRUE]

\* The NOT NULL columns of each table.  Amounts are numbers in every document
\* of the model, so only the text columns can be NULL.
NotNullOk(t, row) ==
  CASE t = "fixed_expenses" -> row.name # None
    [] t = "variable_expenses" -> row.name # None /\ row.date # None
    [] t = "savings_contributions" -> row.date # None
    [] t = "investment_contributions" -> row.date # None
    [] t = "transactions" -> row.type # None /\ row.date # None
    [] OTHER -> TRUE

\* json.dumps of the list of savings accounts: the text, token by token.
RECURSIVE JsonDumpsItems(_)
JsonDumpsItems(accs) ==
  IF accs = <<>> THEN <<>>
  ELSE << "{", Head(accs).name, Head(accs).balance, "}" >> \o JsonDumpsItems(Tail(accs))

JsonDumps(accs) == << "[" >> \o JsonDumpsItems(accs) \o << "]" >>

\* json.loads of such a text.
JsonLoads(text) ==
  LET body == SubSeq(text, 2, Len(text) - 1)
  IN [i \in 1..(Len(body) \div 4) |->
        [name |-> body[4 * i - 2], balance |-> body[4 * i - 1]]]

\* The rows one document gives to a table: the parameter tuples of the INSERT
\* statements, each column read with dict.get.
RowsOf(t, D) ==
  CASE t = "net_worth" ->
         << [ savings_accounts |-> JsonDumps(D.net_worth.savings_accounts),
              investment_account |-> D.net_worth.investment_account,
              other_assets |-> D.net_worth.other_assets ] >>
    [] t = "income" ->
         << [ user_salary |-> D.income.user_salary,
              partner_salary |-> D.income.partner_salary,
              salary_months |-> D.income.salary_months ] >>
    [] t = "fixed_expenses" ->
         [i \in 1..Len(D.fixed_expenses) |->
            [name |-> D.fixed_expenses[i].name, amount |-> D.fixed_expenses[i].amount]]
    [] t = "variable_expenses" ->
         [i \in 1..Len(D.variable_expenses) |->
            [name |-> D.variable_expenses[i].name,
             amount |-> D.variable_expenses[i].amount,
             date |-> D.variable_expenses[i].date]]
    [] t = "savings_contributions" ->
         [i \in 1..Len(D.savings_contributions) |->
            [amount |-> D.savings_contributions[i].amount,
             date |-> D.savings_contributions[i].date,
             account |-> D.savings_contributions[i].account]]
    [] t = "savings_recurring_monthly" ->
         [i \in 1..Len(D.savings_recurring_monthly) |->
            [amount |-> D.savings_recurring_monthly[i].amount,
             account |-> D.savings_recurring_monthly[i].account]]
    [] t = "investment_contributions" ->
         [i \in 1..Len(D.investment_contributions) |->
            [amount |-> D.investment_contributions[i].amount,
             date |-> D.investment_contributions[i].date]]
    [] t = "investment_recurring_monthly" ->
         [i \in 1..Len(D.investment_recurring_monthly) |->
            [amount |-> D.investment_recurring_monthly[i].amount]]
    [] t = "transactions" ->
         [i \in 1..Len(D.transactions) |->
            [type |-> D.transactions[i].type,
             category |-> D.transactions[i].category,
             name |-> D.transactions[i].name,
             amount |-> D.transactions[i].amount,
             date |-> D.transactions[i].date,
             account |-> D.transactions[i].account]]

\* cursor.execute of one INSERT per row, in order, up to the first row a
\* NOT NULL column rejects (sqlite3.IntegrityError): the rows before it are in.
RECURSIVE InsertRows(_, _, _)
InsertRows(T, t, rows) ==
  IF rows = <<>> THEN [tables |-> T, ok |-> TRUE]
  ELSE IF ~NotNullOk(t, Head(rows)) THEN [tables |-> T, ok |-> FALSE]
  ELSE InsertRows([T EXCEPT ![t] = Append(@, Head(rows))], t, Tail(rows))

\* Statements 1..9 of save_data are the DELETEs, 10..18 its INSERTs, table by
\* table in the order of TableNames.
NumStatements == 18

\* Statements that only insert: the DELETEs leave the rows in place.
ExecInsertOnly(T, k, D) ==
  IF k <= 9 THEN [tables |-> T, ok |-> TRUE]
  ELSE InsertRows(T, TableNames[k - 9], RowsOf(TableNames[k - 9], D))

ExecStatement(T, k, D) ==
  IF k <= 9 THEN [tables |-> [T EXCEPT ![TableNames[k]] = <<>>], ok |-> TRUE]
  ELSE InsertRows(T, TableNames[k - 9], RowsOf(TableNames[k - 9], D))

\* Statements from..to run one after the other, stopping at the first that raises.
RECURSIVE RunStatements(_, _, _, _)
RunStatements(T, from, to, D) ==
  IF from > to THEN [tables |-> T, ok |-> TRUE]
  ELSE CHOOSE out \in { IF r.ok THEN RunStatements(r.tables, from + 1, to, D) ELSE r :
                          r \in {ExecStatement(T, from, D)} } : TRUE

\* What the rest of the world sees of a connection's statement before its
\* commit: nothing.  sqlite3.connect opens the connection with the default
\* isolation level, so the first DELETE or INSERT begins a transaction.
AutocommitStatement(committed, working) == working

DurableAfterStatement(committed, working) == committed

\* The read half of load_data.
OrDefault(v, d) == IF v = 0 THEN d ELSE v

OptionalKey(v) == IF Truthy(v) THEN v ELSE None

Last(s) == s[Len(s)]

ReadDocument(T) ==
  [ net_worth |->
      IF T["net_worth"] = <<>> THEN Skeleton.net_worth
      ELSE LET row == Last(T["net_worth"])
           IN [ current |-> 0,
                savings_accounts |->
                  JsonLoads(IF row.savings_accounts = <<>> THEN JsonDumps(<<>>)
                            ELSE row.savings_accounts),
                investment_account |-> OrDefault(row.investment_account, 0),
                other_assets |-> OrDefault(row.other_assets, 0) ],
    income |->
      IF T["income"] = <<>> THEN Skeleton.income
      ELSE LET row == Last(T["income"])
           IN [ user_salary |-> OrDefault(row.user_salary, 0),
                partner_salary |-> OrDefault(row.partner_salary, 0),
                salary_months |-> OrDefault(row.salary_months, 14) ],
    fixed_expenses |->
      [i \in 1..Len(T["fixed_expenses"]) |->
         [name |-> T["fixed_expenses"][i].name, amount |-> T["fixed_expenses"][i].amount]],
    variable_expenses |->
      [i \in 1..Len(T["variable_expenses"]) |->
         [name |-> T["variable_expenses"][i].name,
          amount |-> T["variable_expenses"][i].amount,
          date |-> T["variable_expenses"][i].date]],
    savings_contributions |->
      [i \in 1..Len(T["savings_contributions"]) |->
         [amount |-> T["savings_contributions"][i].amount,
          date |-> T["savings_contributions"][i].date,
          account |-> OptionalKey(T["savings_contributions"][i].account)]],
    savings_recurring_monthly |->
      [i \in 1..Len(T["savings_recurring_monthly"]) |->
         [amount |-> T["savings_recurring_monthly"][i].amount,
          account |-> OptionalKey(T["savings_recurring_monthly"][i].account)]],
    investment_contributions |->
      [i \in 1..Len(T["investment_contributions"]) |->
         [amount |-> T["investment_contributions"][i].amount,
          date |-> T["investment_contributions"][i].date]],
    investment_recurring_monthly |->
      [i \in 1..Len(T["investment_recurring_monthly"]) |->
         [amount |-> T["investment_recurring_monthly"][i].amount]],
    transactions |->
      [i \in 1..Len(T["transactions"]) |->
         [type |-> T["transactions"][i].type,
          category |-> OptionalKey(T["transactions"][i].category),
          name |-> OptionalKey(T["transactions"][i].name),
          amount |-> T["transactions"][i].amount,
          date |-> T["transactions"][i].date,
          account |-> OptionalKey(T["transactions"][i].account)] ] ]

-----------------------------------------------------------------------------
(* migrate_from_json *)

Garbage == [kind |-> "garbage"]

LegacyDocument(D) == [kind |-> "doc", doc |-> D]

\* "Check if database already has data": SELECT COUNT(*) FROM income > 0.
NeverMigrated(T) == FALSE

AlreadyMigrated(T) == Len(T["income"]) > 0

\* os.rename(json_file, json_file + ".backup")
RenameToBackup(files) == [json |-> NoFile, backup |-> files.json]

\* The except branch prints the error and returns False: nothing it did is
\* undone and the legacy file is not touched.
OnMigrationErrorRenames(files) == RenameToBackup(files)

OnMigrationError(files) == files

\* migrate_from_json up to and including conn.commit().  The INSERT statements
\* are those of save_data (statements 10..18), on the legacy document.  A
\* connection that raised after its first INSERT is never closed: it keeps its
\* write transaction, and the lock on the file, until the interpreter
\* finalizes it.  While it does, another connection can read and cannot write.
MigrateToCommit(dbv, lk, file) ==
  LET same == [db |-> dbv, lock |-> lk]
  IN IF file.kind = "absent" THEN same @@ [outcome |-> "returned", exc |-> "none"]
     ELSE IF file.kind = "garbage" THEN same @@ [outcome |-> "raised", exc |-> "parse"]
     ELSE IF ~dbv.created THEN same @@ [outcome |-> "raised", exc |-> "no such table"]
     ELSE IF AlreadyMigrated(dbv.tables)
       THEN same @@ [outcome |-> "returned", exc |-> "none"]
     ELSE IF lk THEN same @@ [outcome |-> "raised", exc |-> "locked"]
     ELSE LET r == RunStatements(dbv.tables, 10, NumStatements, file.doc)
          IN IF r.ok
               THEN [db |-> [dbv EXCEPT !.tables = r.tables], lock |-> lk,
                     outcome |-> "committed", exc |-> "none"]
               ELSE [db |-> [dbv EXCEPT !.tables = DurableAfterStatement(@, r.tables)],
                     lock |-> TRUE, outcome |-> "raised", exc |-> "integrity"]

-----------------------------------------------------------------------------
(* save_data as one call *)

\* save_data(D) from connect to close.  With the file locked, or without
\* tables, the first DELETE raises; an INSERT a NOT NULL column rejects raises
\* with the transaction open, and the connection is left to the interpreter.
save_data(dbv, lk, D) ==
  IF ~dbv.created THEN [db |-> dbv, lock |-> lk, ok |-> FALSE, exc |-> "no such table"]
  ELSE IF lk THEN [db |-> dbv, lock |-> lk, ok |-> FALSE, exc |-> "locked"]
  ELSE LET r == RunStatements(dbv.tables, 1, NumStatements, D)
       IN IF r.ok
            THEN [db |-> [dbv EXCEPT !.tables = r.tables], lock |-> lk,
                  ok |-> TRUE, exc |-> "none"]
            ELSE [db |-> [dbv EXCEPT !.tables = DurableAfterStatement(@, r.tables)],
                  lock |-> TRUE, ok |-> FALSE, exc |-> "integrity"]

-----------------------------------------------------------------------------
(* The documents handed to the store *)

OptionalValues == {None, "", "A"}

\* A document in the shape of the data model with n records in every
\* collection and o in every optional field.
DocOf(n, o) ==
  [ net_worth |->
      [ current |-> 0,
        savings_accounts |-> [i \in 1..n |-> [name |-> "A", balance |-> i]],
        investment_account |-> n,
        other_assets |-> n ],
    income |-> [ user_salary |-> n, partner_salary |-> 2 * n,
                 salary_months |-> IF n % 2 = 0 THEN 14 ELSE 12 ],
    fixed_expenses |-> [i \in 1..n |-> [name |-> "A", amount |-> i]],
    variable_expenses |-> [i \in 1..n |-> [name |-> "A", amount |-> i, date |-> "d1"]],
    savings_contributions |->
      [i \in 1..n |-> [amount |-> i, date |-> "d1", account |-> o]],
    savings_recurring_monthly |-> [i \in 1..n |-> [amount |-> i, account |-> o]],
    investment_contributions |-> [i \in 1..n |-> [amount |-> i, date |-> "d1"]],
    investment_recurring_monthly |-> [i \in 1..n |-> [amount |-> i]],
    transactions |->
      [i \in 1..n |->
         [type |-> "expense", category |-> o, name |-> o, amount |-> 0 - i,
          date |-> "d1", account |-> o]] ]

Docs == {DocOf(n, o) : n \in 0..MaxRows, o \in OptionalValues}

\* Documents whose last variable expense has no name.
BadDocs ==
  {[D EXCEPT !.variable_expenses[Len(D.variable_expenses)].name = None] :
     D \in {DocOf(n, None) : n \in 1..MaxRows}}

LegacyFiles == {NoFile, Garbage} \cup {LegacyDocument(D) : D \in Docs \cup BadDocs}

-----------------------------------------------------------------------------
(* The store under any sequence of calls *)

NoReturn ==
  [op |-> "none", ok |-> TRUE, exc |-> "none", doc |-> NoDoc, after |-> <<"none", TRUE>>]

\* The call a return value is of; while a call is in progress, the one before it.
CallOf(r) == IF r.op = "none" THEN r.after ELSE <<r.op, r.ok>>

Returned(op, ok, exc, doc) ==
  [op |-> op, ok |-> ok, exc |-> exc, doc |-> doc, after |-> CallOf(ret)]

InProgress == [NoReturn EXCEPT !.after = CallOf(ret)]

Init ==
  /\ db = NoDatabase
  /\ lock = FALSE
  /\ jsonFile \in LegacyFiles
  /\ backupFile = NoFile
  /\ data = NoData
  /\ pc = "idle"
  /\ cont = "none"
  /\ txn = EmptyTables
  /\ arg = NoDoc
  /\ step = 0
  /\ ret = NoReturn
  /\ lastSaved = NoDoc
  /\ nTrue = 0
  /\ nMigrated = 0
  /\ years = 1

InitDatabase ==
  /\ pc = "idle"
  /\ db' = init_database(db)
  /\ ret' = Returned("init", TRUE, "none", NoDoc)
  /\ UNCHANGED <<lock, jsonFile, backupFile, data, pc, cont, txn, arg, step,
                 lastSaved, nTrue, nMigrated, years>>

\* A call of migrate_from_json (caller "migrate") or of load_data (caller
\* "load", which first calls init_database) up to the migration's commit, or to
\* the call's return when the migration does not get that far.
CallMigrate(caller) ==
  /\ pc = "idle"
  /\ LET db0 == IF caller = "load" THEN init_database(db) ELSE db
         m == MigrateToCommit(db0, lock, jsonFile)
         files == IF m.outcome = "raised"
                    THEN OnMigrationError([json |-> jsonFile, backup |-> backupFile])
                    ELSE [json |-> jsonFile, backup |-> backupFile]
     IN /\ db' = m.db
        /\ lock' = m.lock
        /\ jsonFile' = files.json
        /\ backupFile' = files.backup
        /\ IF m.outcome = "committed"
             THEN /\ pc' = "rename"
                  /\ cont' = caller
                  /\ nMigrated' = nMigrated + 1
                  /\ ret' = InProgress
             ELSE /\ UNCHANGED <<pc, cont, nMigrated>>
                  /\ IF caller = "load"
                       THEN /\ ret' = Returned("load", TRUE, m.exc, ReadDocument(m.db.tables))
                       ELSE /\ ret' = Returned("migrate", FALSE, m.exc, NoDoc)
  /\ UNCHANGED <<data, txn, arg, step, lastSaved, nTrue, years>>

MigrateFromJson == CallMigrate("migrate")

LoadData == CallMigrate("load")

\* After the commit: the rename, which the file system may refuse, then the
\* return to the caller.
MigrateRename ==
  /\ pc = "rename"
  /\ \E renamed \in BOOLEAN :
       LET before == [json |-> jsonFile, backup |-> backupFile]
           files == IF renamed THEN RenameToBackup(before) ELSE OnMigrationError(before)
           exc == IF renamed THEN "none" ELSE "rename"
       IN /\ jsonFile' = files.json
          /\ backupFile' = files.backup
          /\ nTrue' = IF renamed THEN nTrue + 1 ELSE nTrue
          /\ IF cont = "load"
               THEN /\ ret' = Returned(IF renamed THEN "load_migrated" ELSE "load", TRUE,
                                       exc, ReadDocument(db.tables))
               ELSE /\ ret' = Returned("migrate", renamed, exc, NoDoc)
  /\ pc' = "idle"
  /\ cont' = "none"
  /\ UNCHANGED <<db, lock, data, txn, arg, step, lastSaved, nMigrated, years>>

\* save_data(D): connect and the first DELETE.
SaveData ==
  /\ pc = "idle"
  /\ \E D \in Docs \cup BadDocs :
       IF ~db.created \/ lock
         THEN /\ ret' = Returned("save", FALSE, save_data(db, lock, D).exc, NoDoc)
              /\ UNCHANGED <<db, pc, txn, arg, step>>
         ELSE LET r == ExecStatement(db.tables, 1, D)
              IN /\ txn' = r.tables
                 /\ db' = [db EXCEPT !.tables = DurableAfterStatement(@, r.tables)]
                 /\ arg' = D
                 /\ step' = 1
                 /\ pc' = "save"
                 /\ ret' = InProgress
  /\ UNCHANGED <<lock, jsonFile, backupFile, data, cont, lastSaved, nTrue, nMigrated, years>>

\* The next statement of the save_data in progress.
SaveStatement ==
  /\ pc = "save"
  /\ step < NumStatements
  /\ LET r == ExecStatement(txn, step + 1, arg)
     IN /\ db' = [db EXCEPT !.tables = DurableAfterStatement(@, r.tables)]
        /\ IF r.ok
             THEN /\ txn' = r.tables
                  /\ step' = step + 1
                  /\ UNCHANGED <<pc, lock, arg, ret>>
             ELSE /\ txn' = EmptyTables
                  /\ step' = 0
                  /\ arg' = NoDoc
                  /\ pc' = "idle"
                  /\ lock' = TRUE
                  /\ ret' = Returned("save", FALSE, "integrity", NoDoc)
  /\ UNCHANGED <<jsonFile, backupFile, data, cont, lastSaved, nTrue, nMigrated, years>>

\* conn.commit() and conn.close() of save_data.
SaveCommit ==
  /\ pc = "save"
  /\ step = NumStatements
  /\ db' = [db EXCEPT !.tables = txn]
  /\ lastSaved' = arg
  /\ txn' = EmptyTables
  /\ step' = 0
  /\ arg' = NoDoc
  /\ pc' = "idle"
  /\ ret' = Returned("save", TRUE, "none", NoDoc)
  /\ UNCHANGED <<lock, jsonFile, backupFile, data, cont, nTrue, nMigrated, years>>

\* The process stops in the middle of a call and is started again: what its
\* connections had not committed is gone, and so is the lock.
Crash ==
  /\ pc \in {"save", "rename"}
  /\ pc' = "idle"
  /\ cont' = "none"
  /\ txn' = EmptyTables
  /\ step' = 0
  /\ arg' = NoDoc
  /\ lock' = FALSE
  /\ ret' = Returned("crash", FALSE, pc, NoDoc)
  /\ UNCHANGED <<db, jsonFile, backupFile, data, lastSaved, nTrue, nMigrated, years>>

\* The interpreter finalizes the connection a raising call left open: its
\* transaction is rolled back and the lock released.
FinalizeConnection ==
  /\ pc \in {"idle", "started", "loaded"}
  /\ lock
  /\ lock' = FALSE
  /\ UNCHANGED <<db, jsonFile, backupFile, data, pc, cont, txn, arg, step, ret,
                 lastSaved, nTrue, nMigrated, years>>

Next ==
  \/ InitDatabase
  \/ MigrateFromJson
  \/ LoadData
  \/ MigrateRename
  \/ SaveData
  \/ SaveStatement
  \/ SaveCommit
  \/ Crash
  \/ FinalizeConnection

Spec == Init /\ [][Next]_vars

-----------------------------------------------------------------------------
(* The calculations of app.py *)

calculate_total_expenses(D) == SumAmount(D.fixed_expenses) + SumAmount(D.variable_expenses)

calculate_total_income(D) == D.income.user_salary + D.income.partner_salary

calculate_yearly_income(D) == calculate_total_income(D) * D.income.salary_months

\* A total that counts the balance of the first account only, as for the single
\* savings_account of the old format.
first_account_balance(D) ==
  IF D.net_worth.savings_accounts = <<>> THEN 0
  ELSE Head(D.net_worth.savings_accounts).balance

\* net_worth.savings_accounts is a list in every document load_data returns.
calculate_total_savings(D) == SumBalance(D.net_worth.savings_accounts)

calculate_current_net_worth(D) ==
  calculate_total_savings(D) + D.net_worth.investment_account + D.net_worth.other_assets

CONTRIBUTION_MONTHS == 12

\* A multiplier that follows the salary months.
SalaryMonthsOf(D) == D.income.salary_months

\* The multiplier of every projection.
ContributionMonthsOf(D) == CONTRIBUTION_MONTHS

monthly_savings_contribution(D) == SumAmount(D.savings_recurring_monthly)

monthly_investment_contribution(D) == SumAmount(D.investment_recurring_monthly)

\* An earlier revision: the surplus before the recurring contributions.
SurplusBeforeContributions(D) == calculate_total_income(D) - calculate_total_expenses(D)

monthly_surplus(D) ==
  calculate_total_income(D) - calculate_total_expenses(D)
    - monthly_savings_contribution(D) - monthly_investment_contribution(D)

\* The projection without the surplus.
NetworthPlusContributions(D, y) ==
  calculate_current_net_worth(D)
    + monthly_savings_contribution(D) * ContributionMonthsOf(D) * y
    + monthly_investment_contribution(D) * ContributionMonthsOf(D) * y

\* The projection without the contributions added back to the surplus.
NetworthPlusSurplus(D, y) ==
  calculate_current_net_worth(D) + monthly_surplus(D) * ContributionMonthsOf(D) * y

projected_networth(D, y) ==
  calculate_current_net_worth(D)
    + monthly_surplus(D) * ContributionMonthsOf(D) * y
    + monthly_savings_contribution(D) * ContributionMonthsOf(D) * y
    + monthly_investment_contribution(D) * ContributionMonthsOf(D) * y

simulate_year_end_networth(D, y) ==
  [ years |-> y,
    current_networth |-> calculate_current_net_worth(D),
    projected_networth |-> projected_networth(D, y),
    monthly_income |-> calculate_total_income(D),
    monthly_expenses |-> calculate_total_expenses(D),
    monthly_surplus |-> monthly_surplus(D),
    projected_savings |->
      calculate_total_savings(D) + monthly_savings_contribution(D) * ContributionMonthsOf(D) * y,
    projected_investments |->
      D.net_worth.investment_account
        + monthly_investment_contribution(D) * ContributionMonthsOf(D) * y ]

-----------------------------------------------------------------------------
(* The simulator page over a range of documents *)

\* Records per collection in the documents given to the calculations.
MaxItems == 2

\* The slider goes to 10; the model stops it here.
MaxYears == 2

\* The sequences of 0..MaxItems copies of record r.
Repeated(r) == {[i \in 1..n |-> r] : n \in 0..MaxItems}

CalcDocs ==
  { [ net_worth |-> [ current |-> 0, savings_accounts |-> accs,
                      investment_account |-> inv, other_assets |-> oth ],
      income |-> [ user_salary |-> us, partner_salary |-> ps, salary_months |-> m ],
      fixed_expenses |-> fx,
      variable_expenses |-> vx,
      savings_contributions |-> <<>>,
      savings_recurring_monthly |-> sr,
      investment_contributions |-> <<>>,
      investment_recurring_monthly |-> ir,
      transactions |-> <<>> ] :
      accs \in Repeated([name |-> "A", balance |-> 50]),
      inv \in {0, 70}, oth \in {0, 30},
      us \in {0, 2000}, ps \in {0, 1000}, m \in {12, 14},
      fx \in Repeated([name |-> "A", amount |-> 500]),
      vx \in Repeated([name |-> "A", amount |-> 200, date |-> "d1"]),
      sr \in Repeated([amount |-> 300, account |-> "A"]),
      ir \in Repeated([amount |-> 100]) }

InitCalc ==
  /\ data \in CalcDocs
  /\ years = 1
  /\ pc = "simulator"
  /\ ret = NoReturn
  /\ db = NoDatabase
  /\ lock = FALSE
  /\ jsonFile = NoFile
  /\ backupFile = NoFile
  /\ cont = "none"
  /\ txn = EmptyTables
  /\ arg = NoDoc
  /\ step = 0
  /\ lastSaved = NoDoc
  /\ nTrue = 0
  /\ nMigrated = 0

\* st.slider("Number of Years to Simulate", min_value=1, max_value=10)
SetYears ==
  /\ pc = "simulator"
  /\ \E y \in 1..MaxYears : years' = y
  /\ ret' = NoReturn
  /\ UNCHANGED <<db, lock, jsonFile, backupFile, data, pc, cont, txn, arg, step,
                 lastSaved, nTrue, nMigrated>>

\* The Run Simulation button.
RunSimulation ==
  /\ pc = "simulator"
  /\ ret' = Returned("simulate", TRUE, "none", simulate_year_end_networth(data, years))
  /\ UNCHANGED <<db, lock, jsonFile, backupFile, data, pc, cont, txn, arg, step,
                 lastSaved, nTrue, nMigrated, years>>

NextCalc == SetYears \/ RunSimulation

SpecCalc == InitCalc /\ [][NextCalc]_vars

-----------------------------------------------------------------------------
(* The total of the savings accounts, on a document and on a reordering of it *)

MaxAccounts == 3

BalanceInputs == {1, 2, 4}

AccountLists ==
  UNION { [1..n -> [name : {"A"}, balance : BalanceInputs]] : n \in 0..MaxAccounts }

WithAccounts(accs) == [Skeleton EXCEPT !.net_worth.savings_accounts = accs]

\* data holds a document and arg the same document with its accounts in
\* another order.
InitTotals ==
  /\ \E accs \in AccountLists :
       /\ data = WithAccounts(accs)
       /\ \E other \in {l \in AccountLists : SameBag(l, accs)} : arg = WithAccounts(other)
  /\ pc = "savings"
  /\ ret = NoReturn
  /\ db = NoDatabase
  /\ lock = FALSE
  /\ jsonFile = NoFile
  /\ backupFile = NoFile
  /\ cont = "none"
  /\ txn = EmptyTables
  /\ step = 0
  /\ lastSaved = NoDoc
  /\ nTrue = 0
  /\ nMigrated = 0
  /\ years = 1

\* calculate_total_savings applied to both documents.
TotalSavings ==
  /\ pc = "savings"
  /\ ret' = Returned("total_savings", TRUE, "none",
                     [of_data |-> calculate_total_savings(data),
                      of_arg |-> calculate_total_savings(arg)])
  /\ UNCHANGED <<db, lock, jsonFile, backupFile, data, pc, cont, txn, arg, step,
                 lastSaved, nTrue, nMigrated, years>>

NextTotals == TotalSavings

SpecTotals == InitTotals /\ [][NextTotals]_vars

-----------------------------------------------------------------------------
(* Legacy files in the old net worth format: the savings as one value *)

\* JSON values, and a key that the object does not have.
Absent == [kind |-> "absent"]

JsonNull == [kind |-> "null"]

JsonNumber(n) == [kind |-> "number", value |-> n]

JsonList(items) == [kind |-> "list", items |-> items]

\* dict.get(key, default)
Get(v, default) == IF v = Absent THEN default ELSE v

\* calculate_total_savings on a net_worth object whose savings_accounts may be
\* absent or may not be a list.
calculate_total_savings_json(nw) ==
  LET savings_accounts == Get(nw.savings_accounts, JsonList(<<>>))
  IN IF savings_accounts.kind = "list" THEN SumBalance(savings_accounts.items)
     ELSE Get(nw.savings_account, JsonNumber(0)).value

calculate_current_net_worth_json(nw) ==
  calculate_total_savings_json(nw) + nw.investment_account + nw.other_assets

\* json.dumps and json.loads of a value that may not be a list.
JsonDumpsValue(v) ==
  CASE v.kind = "list" -> JsonDumps(v.items)
    [] v.kind = "null" -> << "null" >>
    [] v.kind = "number" -> << "number", v.value >>

JsonLoadsValue(text) ==
  CASE Head(text) = "[" -> JsonList(JsonLoads(text))
    [] Head(text) = "null" -> JsonNull
    [] Head(text) = "number" -> JsonNumber(text[2])

\* The net_worth row that migrate_from_json inserts for a legacy object; the
\* legacy objects of the model all have the two balances.
MigratedNetWorthRow(nw) ==
  [ savings_accounts |-> JsonDumpsValue(Get(nw.savings_accounts, JsonList(<<>>))),
    investment_account |-> nw.investment_account,
    other_assets |-> nw.other_assets ]

\* The net_worth object load_data builds from that row: it has no
\* savings_account key.
LoadedNetWorth(row) ==
  [ current |-> 0,
    savings_accounts |-> JsonLoadsValue(row.savings_accounts),
    savings_account |-> Absent,
    investment_account |-> OrDefault(row.investment_account, 0),
    other_assets |-> OrDefault(row.other_assets, 0) ]

\* The legacy net_worth objects: the savings as a list of accounts, as the one
\* value of savings_account with no list, or with a savings_accounts that is
\* not a list.
LegacyNetWorths ==
  { [ savings_accounts |-> sa, savings_account |-> s,
      investment_account |-> inv, other_assets |-> oth ] :
      sa \in {Absent, JsonNull, JsonNumber(5)} \cup {JsonList(l) : l \in AccountLists},
      s \in {Absent, JsonNumber(0), JsonNumber(5)},
      inv \in {0, 7}, oth \in {0, 3} }

\* The income row the migration inserts and load_data reads back.
LegacyIncome == [user_salary |-> 1, partner_salary |-> 0, salary_months |-> 12]

\* budget_data.json holds a legacy document with such a net worth, an income
\* and no records, next to a store whose tables are empty.
InitLegacy ==
  /\ \E nw \in LegacyNetWorths :
       jsonFile = LegacyDocument([net_worth |-> nw, income |-> LegacyIncome])
  /\ db = init_database(NoDatabase)
  /\ lock = FALSE
  /\ backupFile = NoFile
  /\ data = NoData
  /\ pc = "legacy"
  /\ cont = "none"
  /\ txn = EmptyTables
  /\ arg = NoDoc
  /\ step = 0
  /\ ret = NoReturn
  /\ lastSaved = NoDoc
  /\ nTrue = 0
  /\ nMigrated = 0
  /\ years = 1

\* load_data on that store: the migration inserts the two rows, commits and
\* renames the file, and the net worth and the income are read back.
LoadLegacy ==
  /\ pc = "legacy"
  /\ \E row \in {MigratedNetWorthRow(jsonFile.doc.net_worth)} :
       /\ db' = [db EXCEPT !.tables["net_worth"] = <<row>>,
                           !.tables["income"] = <<jsonFile.doc.income>>]
       /\ ret' = Returned("load_migrated", TRUE, "none",
                          [net_worth |-> LoadedNetWorth(row), income |-> jsonFile.doc.income])
  /\ jsonFile' = NoFile
  /\ backupFile' = jsonFile
  /\ nMigrated' = nMigrated + 1
  /\ nTrue' = nTrue + 1
  /\ pc' = "idle"
  /\ UNCHANGED <<lock, data, cont, txn, arg, step, lastSaved, years>>

NextLegacy == LoadLegacy

SpecLegacy == InitLegacy /\ [][NextLegacy]_vars

-----------------------------------------------------------------------------
(* The page handlers of app.py *)

RemoveAt(s, i) == SubSeq(s, 1, i - 1) \o SubSeq(s, i + 1, Len(s))

Min(S) == CHOOSE x \in S : \A y \in S : x <= y

\* The positions of the transactions the variable-expense handlers take for
\* the transaction of expense e.
MatchingTransactions(ts, e) ==
  {i \in 1..Len(ts) : /\ ts[i].type = "expense"
                      /\ ts[i].category = "variable"
                      /\ ts[i].name = e.name
                      /\ ts[i].date = e.date}

add_fixed_expense(D, name, amount) ==
  IF Truthy(name)
    THEN [D EXCEPT !.fixed_expenses = Append(@, [name |-> name, amount |-> amount])]
    ELSE D

delete_fixed_expense(D, idx) == [D EXCEPT !.fixed_expenses = RemoveAt(@, idx)]

edit_fixed_expense(D, idx, name, amount) ==
  [D EXCEPT !.fixed_expenses[idx] = [name |-> name, amount |-> amount]]

delete_all_fixed_expenses(D) == [D EXCEPT !.fixed_expenses = <<>>]

\* An add handler that logs the amount of the expense as it was typed.
add_variable_expense_unsigned(D, name, amount, date) ==
  IF Truthy(name)
    THEN [D EXCEPT !.variable_expenses =
                     Append(@, [name |-> name, amount |-> amount, date |-> date]),
                   !.transactions =
                     Append(@, [type |-> "expense", category |-> "variable", name |-> name,
                                amount |-> amount, date |-> date, account |-> None])]
    ELSE D

add_variable_expense(D, name, amount, date) ==
  IF Truthy(name)
    THEN [D EXCEPT !.variable_expenses =
                     Append(@, [name |-> name, amount |-> amount, date |-> date]),
                   !.transactions =
                     Append(@, [type |-> "expense", category |-> "variable", name |-> name,
                                amount |-> 0 - amount, date |-> date, account |-> None])]
    ELSE D

\* A delete that drops the oldest transaction of the log, whatever its type.
delete_variable_expense_first_logged(D, idx) ==
  [D EXCEPT !.variable_expenses = RemoveAt(@, idx),
            !.transactions = IF @ = <<>> THEN @ ELSE Tail(@)]

delete_variable_expense(D, idx) ==
  LET deleted == D.variable_expenses[idx]
      found == MatchingTransactions(D.transactions, deleted)
  IN [D EXCEPT !.variable_expenses = RemoveAt(@, idx),
               !.transactions = IF found = {} THEN @ ELSE RemoveAt(@, Min(found))]

\* An edit that changes the expense and leaves the log as it is.
edit_variable_expense_list_only(D, idx, name, amount, date) ==
  [D EXCEPT !.variable_expenses[idx] = [name |-> name, amount |-> amount, date |-> date]]

edit_variable_expense(D, idx, name, amount, date) ==
  LET old == D.variable_expenses[idx]
      found == MatchingTransactions(D.transactions, old)
  IN [D EXCEPT !.variable_expenses[idx] = [name |-> name, amount |-> amount, date |-> date],
               !.transactions =
                 IF found = {} THEN @
                 ELSE [@ EXCEPT ![Min(found)] =
                         [@ EXCEPT !.name = name, !.amount = 0 - amount, !.date = date]]]

\* A delete-all that empties the whole transaction log.
delete_all_variable_expenses_and_log(D) ==
  [D EXCEPT !.transactions = <<>>, !.variable_expenses = <<>>]

delete_all_variable_expenses(D) ==
  [D EXCEPT !.transactions =
              SelectSeq(@, LAMBDA t : ~(t.type = "expense" /\ t.category = "variable")),
            !.variable_expenses = <<>>]

add_savings_account(D, name, balance) ==
  IF Truthy(name)
    THEN [D EXCEPT !.net_worth.savings_accounts =
                     Append(@, [name |-> name, balance |-> balance])]
    ELSE D

update_savings_account(D, idx, name, balance) ==
  [D EXCEPT !.net_worth.savings_accounts[idx] = [name |-> name, balance |-> balance]]

\* A delete that also drops the records that name the deleted account.
delete_savings_account_cascade(D, idx) ==
  LET name == D.net_worth.savings_accounts[idx].name
      Keep(s) == SelectSeq(s, LAMBDA r : r.account # name)
  IN [D EXCEPT !.net_worth.savings_accounts = RemoveAt(@, idx),
               !.savings_contributions = Keep(@),
               !.savings_recurring_monthly = Keep(@),
               !.transactions = Keep(@)]

delete_savings_account(D, idx) ==
  [D EXCEPT !.net_worth.savings_accounts = RemoveAt(@, idx)]

\* What the account selectbox of a form can return: the name of one of the
\* accounts, or None when there is no account.
AccountChoices(D) ==
  IF D.net_worth.savings_accounts = <<>> THEN {None}
  ELSE {acc.name : acc \in Range(D.net_worth.savings_accounts)}

add_savings_recurring(D, selected, amount) ==
  IF amount > 0
    THEN [D EXCEPT !.savings_recurring_monthly =
                     Append(@, [amount |-> amount,
                                account |-> IF Truthy(selected) THEN selected ELSE "General"])]
    ELSE D

delete_savings_recurring(D, idx) == [D EXCEPT !.savings_recurring_monthly = RemoveAt(@, idx)]

edit_savings_recurring(D, idx, selected, amount) ==
  LET current == D.savings_recurring_monthly[idx].account
      account == IF D.net_worth.savings_accounts # <<>> THEN selected
                 ELSE IF current = None THEN "General" ELSE current
  IN [D EXCEPT !.savings_recurring_monthly[idx] = [amount |-> amount, account |-> account]]

\* The first account of that name gets the amount.
\* A routing that leaves every balance as it is.
CreditNoAccount(accs, name, amount) == accs

\* A routing that credits every account of the selected name.
CreditEveryAccount(accs, name, amount) ==
  [i \in 1..Len(accs) |->
     IF accs[i].name = name THEN [accs[i] EXCEPT !.balance = @ + amount] ELSE accs[i]]

CreditAccount(accs, name, amount) ==
  LET found == {i \in 1..Len(accs) : accs[i].name = name}
  IN IF found = {} THEN accs
     ELSE [accs EXCEPT ![Min(found)].balance = @ + amount]

add_savings_contribution(D, selected, amount, date) ==
  IF amount > 0
    THEN [D EXCEPT !.savings_contributions =
                     Append(@, [amount |-> amount, date |-> date,
                                account |-> IF Truthy(selected) THEN selected ELSE None]),
                   !.net_worth.savings_accounts =
                     IF Truthy(selected) THEN CreditAccount(@, selected, amount) ELSE @,
                   !.transactions =
                     Append(@, [type |-> "savings", category |-> None, name |-> None,
                                amount |-> amount, date |-> date,
                                account |-> IF Truthy(selected) THEN selected ELSE "General"])]
    ELSE D

add_investment_recurring(D, amount) ==
  IF amount > 0
    THEN [D EXCEPT !.investment_recurring_monthly = Append(@, [amount |-> amount])]
    ELSE D

delete_investment_recurring(D, idx) ==
  [D EXCEPT !.investment_recurring_monthly = RemoveAt(@, idx)]

edit_investment_recurring(D, idx, amount) ==
  [D EXCEPT !.investment_recurring_monthly[idx] = [amount |-> amount]]

add_investment_contribution(D, amount, date) ==
  IF amount > 0
    THEN [D EXCEPT !.investment_contributions = Append(@, [amount |-> amount, date |-> date]),
                   !.net_worth.investment_account = @ + amount,
                   !.transactions =
                     Append(@, [type |-> "investment", category |-> None, name |-> None,
                                amount |-> amount, date |-> date, account |-> None])]
    ELSE D

-----------------------------------------------------------------------------
(* The application: sessions, user actions, and the auto-save *)

\* Entries a session's document may grow to: its records, over all the
\* collections, and its income and balance fields that are not zero.
MaxRecords == 2

NameInputs == {"A"}

AmountInputs == {0, 1}

DateInputs == {"d1"}

NonZero(v) == IF v = 0 THEN 0 ELSE 1

NumRecords(D) ==
  Len(D.fixed_expenses) + Len(D.variable_expenses) + Len(D.net_worth.savings_accounts)
    + Len(D.savings_recurring_monthly) + Len(D.savings_contributions)
    + Len(D.investment_recurring_monthly) + Len(D.investment_contributions)
    + NonZero(D.income.user_salary) + NonZero(D.income.partner_salary)
    + NonZero(D.net_worth.investment_account) + NonZero(D.net_worth.other_assets)

\* A legacy document that migrates, and one whose variable expense has no name.
GoodLegacy == [Skeleton EXCEPT !.fixed_expenses = <<[name |-> "A", amount |-> 1]>>]

BadLegacy ==
  [GoodLegacy EXCEPT !.variable_expenses = <<[name |-> None, amount |-> 1, date |-> "d1"]>>]

\* The legacy files the application is started on.
AppLegacyFiles == {NoFile, LegacyDocument(GoodLegacy), LegacyDocument(BadLegacy)}

\* One whole call of migrate_from_json on the database and files w; whether
\* the rename goes through is the file system's decision.
migrate_from_json(w, renamed) ==
  LET m == MigrateToCommit(w.db, w.lock, w.json)
      files == [json |-> w.json, backup |-> w.backup]
      after == IF m.outcome = "committed" /\ renamed THEN RenameToBackup(files)
               ELSE IF m.outcome = "returned" THEN files
               ELSE OnMigrationError(files)
  IN [ db |-> m.db, lock |-> m.lock, json |-> after.json, backup |-> after.backup,
       committed |-> IF m.outcome = "committed" THEN 1 ELSE 0,
       result |-> m.outcome = "committed" /\ renamed ]

\* One whole call of load_data.
load_data(w, renamed) ==
  LET m == migrate_from_json([w EXCEPT !.db = init_database(@)], renamed)
  IN [ db |-> m.db, lock |-> m.lock, json |-> m.json, backup |-> m.backup,
       committed |-> m.committed, result |-> m.result,
       doc |-> ReadDocument(m.db.tables) ]

AppReturn(op, ok, exc) == [NoReturn EXCEPT !.op = op, !.ok = ok, !.exc = exc]

InitApp ==
  /\ db = NoDatabase
  /\ lock = FALSE
  /\ jsonFile \in AppLegacyFiles
  /\ backupFile = NoFile
  /\ data = NoData
  /\ pc = "closed"
  /\ cont = "none"
  /\ txn = EmptyTables
  /\ arg = NoDoc
  /\ step = 0
  /\ ret = NoReturn
  /\ lastSaved = NoDoc
  /\ nTrue = 0
  /\ nMigrated = 0
  /\ years = 1

\* The database and the files as a call finds them.
World == [db |-> db, lock |-> lock, json |-> jsonFile, backup |-> backupFile]

\* The first script run of a session, to its load_data: init_database and
\* migrate_from_json.
StartSession ==
  /\ pc = "closed"
  /\ \E renamed \in BOOLEAN :
       \E w \in {migrate_from_json([World EXCEPT !.db = init_database(@)], renamed)} :
          /\ db' = w.db
          /\ lock' = w.lock
          /\ jsonFile' = w.json
          /\ backupFile' = w.backup
          /\ nMigrated' = nMigrated + w.committed
          /\ nTrue' = nTrue + (IF w.result THEN 1 ELSE 0)
  /\ pc' = "started"
  /\ ret' = NoReturn
  /\ UNCHANGED <<data, cont, txn, arg, step, lastSaved, years>>

\* st.session_state.data = load_data()
LoadSession ==
  /\ pc = "started"
  /\ \E renamed \in BOOLEAN :
       \E w \in {load_data(World, renamed)} :
          /\ data' = w.doc
          /\ db' = w.db
          /\ lock' = w.lock
          /\ jsonFile' = w.json
          /\ backupFile' = w.backup
          /\ nMigrated' = nMigrated + w.committed
          /\ nTrue' = nTrue + (IF w.result THEN 1 ELSE 0)
  /\ pc' = "loaded"
  /\ UNCHANGED <<cont, txn, arg, step, ret, lastSaved, years>>

\* The rest of the first run: the dashboard, and the auto-save.
FirstRun ==
  /\ pc = "loaded"
  /\ \E s \in {save_data(db, lock, data)} :
       /\ db' = s.db
       /\ lock' = s.lock
       /\ lastSaved' = IF s.ok THEN data ELSE lastSaved
       /\ ret' = AppReturn("open", s.ok, s.exc)
  /\ pc' = "idle"
  /\ UNCHANGED <<jsonFile, backupFile, data, cont, txn, arg, step, nTrue, nMigrated, years>>

\* The browser session ends, and with stop the server process too.
CloseSession ==
  /\ pc = "idle"
  /\ data # NoData
  /\ \E stop \in BOOLEAN : lock' = IF stop THEN FALSE ELSE lock
  /\ data' = NoData
  /\ pc' = "closed"
  /\ ret' = NoReturn
  /\ UNCHANGED <<db, jsonFile, backupFile, cont, txn, arg, step, lastSaved,
                 nTrue, nMigrated, years>>

InSession == pc = "idle" /\ data # NoData

\* The end of every script run: save_data(data).  A handler that calls
\* st.rerun() gets there in the run it starts, the others in their own run.
AutoSave(op, D) ==
  \E s \in {save_data(db, lock, D)} :
     /\ data' = D
     /\ db' = s.db
     /\ lock' = s.lock
     /\ lastSaved' = IF s.ok THEN D ELSE lastSaved
     /\ ret' = AppReturn(op, s.ok, s.exc)
     /\ UNCHANGED <<jsonFile, backupFile, pc, cont, txn, arg, step, nTrue, nMigrated, years>>

\* The inputs the user actions are explored with: the texts typed into the
\* name fields, the dates picked, and the entries the document may grow to.
AppInputs == [names |-> NameInputs, dates |-> DateInputs, cap |-> MaxRecords]

\* A user action that leaves the document D, recorded under the name op: the
\* inputs are taken while the document stays within the bound, or does not
\* grow.
MutationAs(op, p, D) ==
  \E doc \in {D} :
     /\ ~(NumRecords(doc) > p.cap /\ NumRecords(doc) > NumRecords(data))
     /\ ~(Len(doc.transactions) > p.cap /\ Len(doc.transactions) > Len(data.transactions))
     /\ AutoSave(op, doc)

Mutation(p, D) == MutationAs("action", p, D)

SetSalaryMonths(p) ==
  /\ InSession
  /\ \E m \in {12, 14} : Mutation(p, [data EXCEPT !.income.salary_months = m])

SetUserSalary(p) ==
  /\ InSession
  /\ \E v \in AmountInputs : Mutation(p, [data EXCEPT !.income.user_salary = v])

SetPartnerSalary(p) ==
  /\ InSession
  /\ \E v \in AmountInputs : Mutation(p, [data EXCEPT !.income.partner_salary = v])

AddFixedExpense(p) ==
  /\ InSession
  /\ \E name \in p.names, amount \in AmountInputs :
       Mutation(p, add_fixed_expense(data, name, amount))

DeleteFixedExpense(p) ==
  /\ InSession
  /\ \E idx \in 1..Len(data.fixed_expenses) : Mutation(p, delete_fixed_expense(data, idx))

EditFixedExpense(p) ==
  /\ InSession
  /\ \E idx \in 1..Len(data.fixed_expenses), name \in p.names, amount \in AmountInputs :
       Mutation(p, edit_fixed_expense(data, idx, name, amount))

DeleteAllFixedExpenses(p) ==
  /\ InSession
  /\ data.fixed_expenses # <<>>
  /\ Mutation(p, delete_all_fixed_expenses(data))

AddVariableExpense(p) ==
  /\ InSession
  /\ \E name \in p.names, amount \in AmountInputs, date \in p.dates :
       Mutation(p, add_variable_expense(data, name, amount, date))

DeleteVariableExpense(p) ==
  /\ InSession
  /\ \E idx \in 1..Len(data.variable_expenses) : Mutation(p, delete_variable_expense(data, idx))

EditVariableExpense(p) ==
  /\ InSession
  /\ \E idx \in 1..Len(data.variable_expenses), name \in p.names,
        amount \in AmountInputs, date \in p.dates :
       Mutation(p, edit_variable_expense(data, idx, name, amount, date))

DeleteAllVariableExpenses(p) ==
  /\ InSession
  /\ data.variable_expenses # <<>>
  /\ MutationAs("delete_all", p, delete_all_variable_expenses(data))

AddSavingsAccount(p) ==
  /\ InSession
  /\ \E name \in p.names, balance \in AmountInputs :
       Mutation(p, add_savings_account(data, name, balance))

UpdateSavingsAccount(p) ==
  /\ InSession
  /\ \E idx \in 1..Len(data.net_worth.savings_accounts), name \in p.names,
        balance \in AmountInputs :
       Mutation(p, update_savings_account(data, idx, name, balance))

DeleteSavingsAccount(p) ==
  /\ InSession
  /\ \E idx \in 1..Len(data.net_worth.savings_accounts) :
       Mutation(p, delete_savings_account(data, idx))

AddSavingsRecurring(p) ==
  /\ InSession
  /\ \E selected \in AccountChoices(data), amount \in AmountInputs :
       Mutation(p, add_savings_recurring(data, selected, amount))

DeleteSavingsRecurring(p) ==
  /\ InSession
  /\ \E idx \in 1..Len(data.savings_recurring_monthly) :
       Mutation(p, delete_savings_recurring(data, idx))

EditSavingsRecurring(p) ==
  /\ InSession
  /\ \E idx \in 1..Len(data.savings_recurring_monthly), selected \in AccountChoices(data),
        amount \in AmountInputs :
       Mutation(p, edit_savings_recurring(data, idx, selected, amount))

AddSavingsContribution(p) ==
  /\ InSession
  /\ \E selected \in AccountChoices(data), amount \in AmountInputs, date \in p.dates :
       Mutation(p, add_savings_contribution(data, selected, amount, date))

SetInvestmentBalance(p) ==
  /\ InSession
  /\ \E v \in AmountInputs : Mutation(p, [data EXCEPT !.net_worth.investment_account = v])

AddInvestmentRecurring(p) ==
  /\ InSession
  /\ \E amount \in AmountInputs : Mutation(p, add_investment_recurring(data, amount))

DeleteInvestmentRecurring(p) ==
  /\ InSession
  /\ \E idx \in 1..Len(data.investment_recurring_monthly) :
       Mutation(p, delete_investment_recurring(data, idx))

EditInvestmentRecurring(p) ==
  /\ InSession
  /\ \E idx \in 1..Len(data.investment_recurring_monthly), amount \in AmountInputs :
       Mutation(p, edit_investment_recurring(data, idx, amount))

AddInvestmentContribution(p) ==
  /\ InSession
  /\ \E amount \in AmountInputs, date \in p.dates :
       Mutation(p, add_investment_contribution(data, amount, date))

SetOtherAssets(p) ==
  /\ InSession
  /\ \E v \in AmountInputs : Mutation(p, [data EXCEPT !.net_worth.other_assets = v])

NextApp ==
  \/ StartSession
  \/ LoadSession
  \/ FirstRun
  \/ CloseSession
  \/ FinalizeConnection
  \/ SetSalaryMonths(AppInputs)
  \/ SetUserSalary(AppInputs)
  \/ SetPartnerSalary(AppInputs)
  \/ AddFixedExpense(AppInputs)
  \/ DeleteFixedExpense(AppInputs)
  \/ EditFixedExpense(AppInputs)
  \/ DeleteAllFixedExpenses(AppInputs)
  \/ AddVariableExpense(AppInputs)
  \/ DeleteVariableExpense(AppInputs)
  \/ EditVariableExpense(AppInputs)
  \/ DeleteAllVariableExpenses(AppInputs)
  \/ AddSavingsAccount(AppInputs)
  \/ UpdateSavingsAccount(AppInputs)
  \/ DeleteSavingsAccount(AppInputs)
  \/ AddSavingsRecurring(AppInputs)
  \/ DeleteSavingsRecurring(AppInputs)
  \/ EditSavingsRecurring(AppInputs)
  \/ AddSavingsContribution(AppInputs)
  \/ SetInvestmentBalance(AppInputs)
  \/ AddInvestmentRecurring(AppInputs)
  \/ DeleteInvestmentRecurring(AppInputs)
  \/ EditInvestmentRecurring(AppInputs)
  \/ AddInvestmentContribution(AppInputs)
  \/ SetOtherAssets(AppInputs)

SpecApp == InitApp /\ [][NextApp]_vars

-----------------------------------------------------------------------------
(* The pages from a first start without a legacy file: the two expense tabs,
   the savings and investment tabs, and all the pages together *)

InitFresh == InitApp /\ jsonFile = NoFile

\* The texts typed into a name field: nothing, or a name.
TextInputs == {"", "A"}

ExpenseInputs == [names |-> TextInputs, dates |-> DateInputs, cap |-> MaxRecords]

NextExpenses ==
  \/ StartSession
  \/ LoadSession
  \/ FirstRun
  \/ CloseSession
  \/ AddFixedExpense(ExpenseInputs)
  \/ DeleteFixedExpense(ExpenseInputs)
  \/ EditFixedExpense(ExpenseInputs)
  \/ DeleteAllFixedExpenses(ExpenseInputs)
  \/ AddVariableExpense(ExpenseInputs)
  \/ DeleteVariableExpense(ExpenseInputs)
  \/ EditVariableExpense(ExpenseInputs)
  \/ DeleteAllVariableExpenses(ExpenseInputs)

SpecExpenses == InitFresh /\ [][NextExpenses]_vars

\* Entries the document may grow to on the savings and investment tabs.
MaxEntries == 3

SavingsInputs == [names |-> NameInputs, dates |-> DateInputs, cap |-> MaxEntries]

NextSavings ==
  \/ StartSession
  \/ LoadSession
  \/ FirstRun
  \/ CloseSession
  \/ AddSavingsAccount(SavingsInputs)
  \/ UpdateSavingsAccount(SavingsInputs)
  \/ DeleteSavingsAccount(SavingsInputs)
  \/ AddSavingsRecurring(SavingsInputs)
  \/ DeleteSavingsRecurring(SavingsInputs)
  \/ EditSavingsRecurring(SavingsInputs)
  \/ AddSavingsContribution(SavingsInputs)
  \/ SetInvestmentBalance(SavingsInputs)
  \/ AddInvestmentRecurring(SavingsInputs)
  \/ DeleteInvestmentRecurring(SavingsInputs)
  \/ EditInvestmentRecurring(SavingsInputs)
  \/ AddInvestmentContribution(SavingsInputs)
  \/ SetOtherAssets(SavingsInputs)

SpecSavings == InitFresh /\ [][NextSavings]_vars

\* The variable-expense tab within one session: the application is started
\* once and not reloaded.
OneSessionInputs == [names |-> TextInputs, dates |-> {"d1", "d2"}, cap |-> MaxRecords]

NextOneSession ==
  \/ StartSession
  \/ LoadSession
  \/ FirstRun
  \/ AddVariableExpense(OneSessionInputs)
  \/ DeleteVariableExpense(OneSessionInputs)
  \/ EditVariableExpense(OneSessionInputs)
  \/ DeleteAllVariableExpenses(OneSessionInputs)

SpecOneSession == InitFresh /\ [][NextOneSession]_vars

\* Every page, with the inputs of SpecApp.
NextFresh ==
  \/ StartSession
  \/ LoadSession
  \/ FirstRun
  \/ CloseSession
  \/ SetSalaryMonths(AppInputs)
  \/ SetUserSalary(AppInputs)
  \/ SetPartnerSalary(AppInputs)
  \/ AddFixedExpense(AppInputs)
  \/ DeleteFixedExpense(AppInputs)
  \/ EditFixedExpense(AppInputs)
  \/ DeleteAllFixedExpenses(AppInputs)
  \/ AddVariableExpense(AppInputs)
  \/ DeleteVariableExpense(AppInputs)
  \/ EditVariableExpense(AppInputs)
  \/ DeleteAllVariableExpenses(AppInputs)
  \/ AddSavingsAccount(AppInputs)
  \/ UpdateSavingsAccount(AppInputs)
  \/ DeleteSavingsAccount(AppInputs)
  \/ AddSavingsRecurring(AppInputs)
  \/ DeleteSavingsRecurring(AppInputs)
  \/ EditSavingsRecurring(AppInputs)
  \/ AddSavingsContribution(AppInputs)
  \/ SetInvestmentBalance(AppInputs)
  \/ AddInvestmentRecurring(AppInputs)
  \/ DeleteInvestmentRecurring(AppInputs)
  \/ EditInvestmentRecurring(AppInputs)
  \/ AddInvestmentContribution(AppInputs)
  \/ SetOtherAssets(AppInputs)

SpecFresh == InitFresh /\ [][NextFresh]_vars

-----------------------------------------------------------------------------
(* The Settings page *)

\* The document after the Reset All Data block of a script run, from what its
\* two widgets return in that run: st.button gives True only in the run its
\* click started, and the checkbox, which is created inside the button's
\* branch, gives what it holds when that branch is run.
reset_all_data(D, button, checkbox) == IF button /\ checkbox THEN Skeleton ELSE D

\* A script run of the Settings page that ends on the page's own state where.
SettingsRun(op, D, where) ==
  /\ \E s \in {save_data(db, lock, D)} :
        /\ data' = D
        /\ db' = s.db
        /\ lock' = s.lock
        /\ lastSaved' = IF s.ok THEN D ELSE lastSaved
        /\ ret' = AppReturn(op, s.ok, s.exc)
  /\ pc' = where
  /\ UNCHANGED <<jsonFile, backupFile, cont, txn, arg, step, nTrue, nMigrated, years>>

\* The Save All Data button: save_data(data), and the auto-save after it.
SaveAllData ==
  /\ InSession
  /\ SettingsRun("save_all", data, "idle")

\* The click on Reset All Data: in the run it starts the button is True and
\* the checkbox is created, unticked.  The run ends with the checkbox on the
\* page.
ClickReset ==
  /\ InSession
  /\ SettingsRun("reset_click", reset_all_data(data, TRUE, FALSE), "confirm")

\* The user ticks the confirmation checkbox, or leaves it and does something
\* else on the page: in the run that starts the button is False, so the
\* checkbox is not created again and its value is not read.
ConfirmReset ==
  /\ pc = "confirm"
  /\ \E ticked \in BOOLEAN :
       SettingsRun(IF ticked THEN "reset" ELSE "action",
                   reset_all_data(data, FALSE, ticked), "idle")

NextSettings ==
  \/ StartSession
  \/ LoadSession
  \/ FirstRun
  \/ CloseSession
  \/ SetSalaryMonths(AppInputs)
  \/ SetUserSalary(AppInputs)
  \/ SetPartnerSalary(AppInputs)
  \/ AddFixedExpense(AppInputs)
  \/ DeleteFixedExpense(AppInputs)
  \/ EditFixedExpense(AppInputs)
  \/ DeleteAllFixedExpenses(AppInputs)
  \/ AddVariableExpense(AppInputs)
  \/ DeleteVariableExpense(AppInputs)
  \/ EditVariableExpense(AppInputs)
  \/ DeleteAllVariableExpenses(AppInputs)
  \/ AddSavingsAccount(AppInputs)
  \/ UpdateSavingsAccount(AppInputs)
  \/ DeleteSavingsAccount(AppInputs)
  \/ AddSavingsRecurring(AppInputs)
  \/ DeleteSavingsRecurring(AppInputs)
  \/ EditSavingsRecurring(AppInputs)
  \/ AddSavingsContribution(AppInputs)
  \/ SetInvestmentBalance(AppInputs)
  \/ AddInvestmentRecurring(AppInputs)
  \/ DeleteInvestmentRecurring(AppInputs)
  \/ EditInvestmentRecurring(AppInputs)
  \/ AddInvestmentContribution(AppInputs)
  \/ SetOtherAssets(AppInputs)
  \/ SaveAllData
  \/ ClickReset
  \/ ConfirmReset

\* A user who has clicked Reset All Data goes on to tick the checkbox or to
\* leave it.
SpecSettings == InitFresh /\ [][NextSettings]_vars /\ WF_vars(ConfirmReset)

-----------------------------------------------------------------------------
(* Properties of the store *)

\* The tables holding exactly the rows of document D.
ImageOf(D) == [t \in Range(TableNames) |-> RowsOf(t, D)]

\* Equal in every field, the collections up to the order of their records.
SameDocument(A, B) ==
  /\ SameBag(A.net_worth.savings_accounts, B.net_worth.savings_accounts)
  /\ A.net_worth.investment_account = B.net_worth.investment_account
  /\ A.net_worth.other_assets = B.net_worth.other_assets
  /\ A.income = B.income
  /\ SameBag(A.fixed_expenses, B.fixed_expenses)
  /\ SameBag(A.variable_expenses, B.variable_expenses)
  /\ SameBag(A.savings_contributions, B.savings_contributions)
  /\ SameBag(A.savings_recurring_monthly, B.savings_recurring_monthly)
  /\ SameBag(A.investment_contributions, B.investment_contributions)
  /\ SameBag(A.investment_recurring_monthly, B.investment_recurring_monthly)
  /\ SameBag(A.transactions, B.transactions)

\* C1 (as claimed).  With no legacy file, the document load_data returns right
\* after a save_data(D) that committed equals D in every field, the
\* collections up to order.
C1_RoundTrip ==
  (ret.op = "load" /\ ret.after = <<"save", TRUE>> /\ jsonFile.kind = "absent")
    => SameDocument(ret.doc, lastSaved)

\* C2.  Whatever point a save_data has reached, and after a crash or an
\* exception in the middle of it, the committed tables are the complete image
\* of the document of the last save_data that committed; before any has, they
\* are empty or the complete image of the migrated document.  No state mixes
\* cleared tables, rows of the new document and rows of the previous one.
C2_SaveAllOrNothing ==
  IF lastSaved = NoDoc
    THEN \/ db.tables = EmptyTables
         \/ \E D \in Docs : db.tables = ImageOf(D)
    ELSE db.tables = ImageOf(lastSaved)

\* C2's case: the process stopped in the middle of a save_data that ran over a
\* store holding the rows of an earlier save.
C2_Witness ==
  /\ ret.op = "crash"
  /\ ret.exc = "save"
  /\ lastSaved # NoDoc
  /\ db.tables["transactions"] # <<>>

\* C3 (as claimed).  When the script run that follows a user action has
\* ended and the next action can be taken, the store holds exactly the rows of
\* the in-memory document.
C3_MutationPersisted ==
  (pc = "idle" /\ ret.op \in {"action", "delete_all"}) => db.tables = ImageOf(data)

\* C4 (as claimed).  A migration that returned True has inserted the legacy
\* document's fields, each into its table, and renamed the file to the backup
\* name; and the load_data after it returns a document equal to the legacy
\* document in every field.
C4_MigrationReproducesLegacy ==
  /\ (ret.op = "migrate" /\ ret.ok) =>
       /\ jsonFile.kind = "absent"
       /\ backupFile.kind = "doc"
       /\ db.tables = ImageOf(backupFile.doc)
  /\ (\/ ret.op = "load_migrated"
      \/ ret.op = "load" /\ ret.after = <<"migrate", TRUE>>) =>
       SameDocument(ret.doc, backupFile.doc)

\* C5.  A call of migrate_from_json (also the one inside load_data) that finds
\* a row in the income table changes no table and neither legacy file, and
\* returns False.
C5_MigrationGuard ==
  [][ (Len(db.tables["income"]) > 0 /\ (MigrateFromJson \/ LoadData)) =>
        /\ db' = db
        /\ jsonFile' = jsonFile
        /\ backupFile' = backupFile
        /\ pc' = "idle"
        /\ (ret'.op = "migrate" => ~ret'.ok) ]_vars

\* C5's case: migrate_from_json has returned False, without an exception, with
\* a legacy document in place and a row in the income table.
C5_Witness ==
  /\ ret.op = "migrate"
  /\ ~ret.ok
  /\ ret.exc = "none"
  /\ jsonFile.kind = "doc"
  /\ Len(db.tables["income"]) > 0

\* C6.  Over any sequence of calls, crashes included, migrate_from_json
\* returns True at most once and commits its inserts at most once, and a call
\* right after one that returned True returns False.
C6_MigratesAtMostOnce ==
  /\ nTrue <= 1
  /\ nMigrated <= 1
  /\ (ret.op = "migrate" /\ ret.after = <<"migrate", TRUE>>) => ~ret.ok

\* C6's case: a second call right after the migrating one.
C6_Witness ==
  /\ ret.op = "migrate"
  /\ ret.after = <<"migrate", TRUE>>
  /\ nTrue = 1

\* C7.  A migration that raises (the file does not parse, a NOT NULL column
\* rejects a row, the tables are missing or locked, the rename fails) returns
\* to its caller, with False, and leaves both legacy files as they were.
C7_MigrationFailure ==
  [][ ((MigrateFromJson \/ LoadData \/ MigrateRename) /\ ret'.op # "none"
         /\ ret'.exc # "none") =>
        /\ jsonFile' = jsonFile
        /\ backupFile' = backupFile
        /\ pc' = "idle"
        /\ (ret'.op = "migrate" => ~ret'.ok) ]_vars

\* C7's case: a NOT NULL column rejected a row of the legacy document.
C7_Witness ==
  /\ ret.op = "migrate"
  /\ ret.exc = "integrity"
  /\ jsonFile.kind = "doc"

-----------------------------------------------------------------------------
(* Properties of the calculations *)

\* The sum of the amounts of a collection, by position.
RECURSIVE AmountsUpTo(_, _)
AmountsUpTo(s, n) == IF n = 0 THEN 0 ELSE AmountsUpTo(s, n - 1) + s[n].amount

TotalOf(s) == AmountsUpTo(s, Len(s))

RECURSIVE BalancesUpTo(_, _)
BalancesUpTo(s, n) == IF n = 0 THEN 0 ELSE BalancesUpTo(s, n - 1) + s[n].balance

Simulated == ret.op = "simulate"

NetWorthNow ==
  BalancesUpTo(data.net_worth.savings_accounts, Len(data.net_worth.savings_accounts))
    + data.net_worth.investment_account + data.net_worth.other_assets

IncomeNow == data.income.user_salary + data.income.partner_salary

ExpensesNow == TotalOf(data.fixed_expenses) + TotalOf(data.variable_expenses)

\* C8.  The monthly surplus of the simulation is total income minus total
\* expenses minus the recurring savings amounts minus the recurring investment
\* amounts: 1900 for salaries 2000 and 1000, fixed 500, variable 200, recurring
\* savings 300 and recurring investment 100.
C8_MonthlySurplus ==
  Simulated =>
    /\ ret.doc.monthly_surplus =
         IncomeNow - ExpensesNow - TotalOf(data.savings_recurring_monthly)
           - TotalOf(data.investment_recurring_monthly)
    /\ ( /\ data.income.user_salary = 2000 /\ data.income.partner_salary = 1000
         /\ TotalOf(data.fixed_expenses) = 500 /\ TotalOf(data.variable_expenses) = 200
         /\ TotalOf(data.savings_recurring_monthly) = 300
         /\ TotalOf(data.investment_recurring_monthly) = 100 )
         => ret.doc.monthly_surplus = 1900

\* C8's case: the simulation of the example document.
C8_Witness ==
  /\ Simulated
  /\ data.income.user_salary = 2000 /\ data.income.partner_salary = 1000
  /\ TotalOf(data.fixed_expenses) = 500 /\ TotalOf(data.variable_expenses) = 200
  /\ TotalOf(data.savings_recurring_monthly) = 300
  /\ TotalOf(data.investment_recurring_monthly) = 100
  /\ ret.doc.monthly_surplus = 1900

\* C9.  The projections are linear with the multiplier 12, whatever
\* salary_months is: savings and investments grow by their recurring amounts
\* times 12 times years, and the net worth by the surplus and both recurring
\* amounts times 12 times years.
C9_Projection ==
  Simulated =>
    LET ms == TotalOf(data.savings_recurring_monthly)
        mi == TotalOf(data.investment_recurring_monthly)
        surplus == IncomeNow - ExpensesNow - ms - mi
        savings == BalancesUpTo(data.net_worth.savings_accounts,
                                Len(data.net_worth.savings_accounts))
    IN /\ ret.doc.years = years
       /\ ret.doc.projected_savings = savings + ms * 12 * years
       /\ ret.doc.projected_investments = data.net_worth.investment_account + mi * 12 * years
       /\ ret.doc.projected_networth =
            NetWorthNow + surplus * 12 * years + ms * 12 * years + mi * 12 * years

\* C9's case: recurring contributions of both kinds, 14 salary months, 2 years.
C9_Witness ==
  /\ Simulated
  /\ years = 2
  /\ data.income.salary_months = 14
  /\ data.savings_recurring_monthly # <<>>
  /\ data.investment_recurring_monthly # <<>>
  /\ data.net_worth.savings_accounts # <<>>

\* C10.  Without recurring contributions and without expenses the projected
\* net worth is the current net worth plus total income times 12 times years.
C10_NoContributionsNoExpenses ==
  ( /\ Simulated
    /\ data.savings_recurring_monthly = <<>>
    /\ data.investment_recurring_monthly = <<>>
    /\ data.fixed_expenses = <<>>
    /\ data.variable_expenses = <<>> )
    => ret.doc.projected_networth = NetWorthNow + IncomeNow * 12 * years

\* C10's case: such a document with an income and a net worth, over 2 years.
C10_Witness ==
  /\ Simulated
  /\ years = 2
  /\ data.savings_recurring_monthly = <<>>
  /\ data.investment_recurring_monthly = <<>>
  /\ data.fixed_expenses = <<>>
  /\ data.variable_expenses = <<>>
  /\ IncomeNow = 3000
  /\ NetWorthNow > 0

\* The document that differs from the simulated one only in salary_months
\* (12 where it has 14, and 14 where it has 12).
OtherSalaryMonths == [data EXCEPT !.income.salary_months = 26 - @]

\* C11.  salary_months affects only the yearly income: the yearly income is the
\* total monthly income times salary_months, and the document that differs
\* only in salary_months (12 versus 14) has the same monthly surplus and the
\* same simulate_year_end_networth result, field by field.
C11_SalaryMonthsOnlyYearlyIncome ==
  Simulated =>
    /\ calculate_yearly_income(data) = IncomeNow * data.income.salary_months
    /\ monthly_surplus(OtherSalaryMonths) = monthly_surplus(data)
    /\ ret.doc.monthly_surplus = monthly_surplus(OtherSalaryMonths)
    /\ simulate_year_end_networth(OtherSalaryMonths, years) = ret.doc

\* C11's case: a simulation over 2 years of a document with 14 salary months,
\* an income and a nonzero surplus, whose 12-month twin has another yearly
\* income.
C11_Witness ==
  /\ Simulated
  /\ years = 2
  /\ data.income.salary_months = 14
  /\ OtherSalaryMonths.income.salary_months = 12
  /\ IncomeNow = 3000
  /\ ret.doc.monthly_surplus # 0
  /\ calculate_yearly_income(OtherSalaryMonths) # calculate_yearly_income(data)

Loaded == ret.op = "load" /\ ret.ok

\* C13.  load_data on a store without rows and without a legacy file returns
\* the default skeleton: every collection empty, every balance and salary zero;
\* for that document the current net worth is 0, the total expenses are 0 and
\* the net worth projected over 1 year is 0.
C13_EmptyStore ==
  (ret.op = "load" /\ db.tables = EmptyTables /\ jsonFile.kind = "absent") =>
    /\ ret.ok
    /\ ret.doc.net_worth.savings_accounts = <<>>
    /\ ret.doc.net_worth.investment_account = 0
    /\ ret.doc.net_worth.other_assets = 0
    /\ ret.doc.income.user_salary = 0
    /\ ret.doc.income.partner_salary = 0
    /\ ret.doc.fixed_expenses = <<>>
    /\ ret.doc.variable_expenses = <<>>
    /\ ret.doc.savings_contributions = <<>>
    /\ ret.doc.savings_recurring_monthly = <<>>
    /\ ret.doc.investment_contributions = <<>>
    /\ ret.doc.investment_recurring_monthly = <<>>
    /\ ret.doc.transactions = <<>>
    /\ calculate_current_net_worth(ret.doc) = 0
    /\ calculate_total_expenses(ret.doc) = 0
    /\ projected_networth(ret.doc, 1) = 0
    /\ simulate_year_end_networth(ret.doc, 1).projected_networth = 0

\* C13's case: load_data has returned from a created store that holds no row,
\* with no legacy file and no backup of one.
C13_Witness ==
  /\ Loaded
  /\ db.created
  /\ db.tables = EmptyTables
  /\ jsonFile.kind = "absent"
  /\ backupFile.kind = "absent"
  /\ projected_networth(ret.doc, 1) = 0

\* C14.  Deleting a variable expense removes that expense and exactly one
\* transaction, the first in log order whose type is expense, whose category is
\* variable and whose name and date are those of the deleted expense.
C14_DeleteRemovesOneTransaction ==
  [][ DeleteVariableExpense(ExpenseInputs) =>
        \E idx \in 1..Len(data.variable_expenses) :
           /\ data'.variable_expenses = RemoveAt(data.variable_expenses, idx)
           /\ MatchingTransactions(data.transactions, data.variable_expenses[idx]) # {}
           /\ data'.transactions =
                RemoveAt(data.transactions,
                         Min(MatchingTransactions(data.transactions,
                                                  data.variable_expenses[idx]))) ]_vars

\* What the transaction of each variable expense should record, in the order
\* of the expenses.
ExpectedExpenseLog(D) ==
  [i \in 1..Len(D.variable_expenses) |->
     [name |-> D.variable_expenses[i].name,
      date |-> D.variable_expenses[i].date,
      amount |-> 0 - D.variable_expenses[i].amount]]

\* What the transactions of type expense and category variable record, in log
\* order.
RECURSIVE ExpenseLog(_)
ExpenseLog(ts) ==
  IF ts = <<>> THEN <<>>
  ELSE IF Head(ts).type = "expense" /\ Head(ts).category = "variable"
         THEN <<[name |-> Head(ts).name, date |-> Head(ts).date, amount |-> Head(ts).amount]>>
                \o ExpenseLog(Tail(ts))
         ELSE ExpenseLog(Tail(ts))

\* C15.  Starting from the empty document, after any sequence of add, edit and
\* delete variable-expense operations the variable expenses and the
\* transactions of type expense and category variable correspond one to one,
\* each pair with the same name, the same date and the transaction amount
\* minus the expense amount, also when two expenses share name and date.
C15_ExpensesInSync ==
  InSession => SameBag(ExpectedExpenseLog(data), ExpenseLog(data.transactions))

\* C16.  After any sequence of add, edit and delete fixed-expense operations
\* every entry of fixed_expenses has a name that is not empty and an amount
\* that is not negative (an add or an edit submitted with an empty name leaves
\* the document as it was).
C16_FixedExpensesValid ==
  InSession =>
    \A i \in 1..Len(data.fixed_expenses) :
       /\ data.fixed_expenses[i].name # ""
       /\ data.fixed_expenses[i].amount >= 0

\* Every record of the list s has an amount that is not negative.
AmountsNonNegative(s) == \A i \in 1..Len(s) : s[i].amount >= 0

\* C17.  Starting from the empty document, after any sequence of user actions
\* every amount in the expense and contribution lists, every savings account
\* balance, investment_account and other_assets are not negative, every
\* transaction of type expense has an amount <= 0 and every transaction of type
\* savings or investment has an amount > 0.
C17_Signs ==
  InSession =>
    /\ AmountsNonNegative(data.fixed_expenses)
    /\ AmountsNonNegative(data.variable_expenses)
    /\ AmountsNonNegative(data.savings_contributions)
    /\ AmountsNonNegative(data.savings_recurring_monthly)
    /\ AmountsNonNegative(data.investment_contributions)
    /\ AmountsNonNegative(data.investment_recurring_monthly)
    /\ \A i \in 1..Len(data.net_worth.savings_accounts) :
          data.net_worth.savings_accounts[i].balance >= 0
    /\ data.net_worth.investment_account >= 0
    /\ data.net_worth.other_assets >= 0
    /\ \A i \in 1..Len(data.transactions) :
          /\ data.transactions[i].type = "expense" => data.transactions[i].amount <= 0
          /\ data.transactions[i].type \in {"savings", "investment"}
               => data.transactions[i].amount > 0

\* C17's case: a session whose log holds the transaction of an expense with a
\* negative amount and the transaction of a contribution.
C17_Witness ==
  /\ InSession
  /\ ret.op = "action"
  /\ \E i \in 1..Len(data.transactions) :
        data.transactions[i].type = "expense" /\ data.transactions[i].amount < 0
  /\ \E i \in 1..Len(data.transactions) :
        data.transactions[i].type \in {"savings", "investment"}
  /\ data.variable_expenses # <<>>

\* The step is the savings form submitted with this account, amount and date.
SavingsContributionOf(selected, amount, date) ==
  /\ data' = add_savings_contribution(data, selected, amount, date)
  /\ AddSavingsContribution(SavingsInputs)

\* The step is the investment form submitted with this amount and date.
InvestmentContributionOf(amount, date) ==
  /\ data' = add_investment_contribution(data, amount, date)
  /\ AddInvestmentContribution(SavingsInputs)

\* The positions of the savings accounts called name.
AccountsNamed(D, name) ==
  {i \in 1..Len(D.net_worth.savings_accounts) : D.net_worth.savings_accounts[i].name = name}

C20_DeleteAccountOnly ==
  [][ (InSession /\ DeleteSavingsAccount(SavingsInputs)) =>
        /\ \E idx \in 1..Len(data.net_worth.savings_accounts) :
              data'.net_worth.savings_accounts
                = SubSeq(data.net_worth.savings_accounts, 1, idx - 1)
                    \o SubSeq(data.net_worth.savings_accounts, idx + 1,
                              Len(data.net_worth.savings_accounts))
        /\ data'.net_worth.investment_account = data.net_worth.investment_account
        /\ data'.net_worth.other_assets = data.net_worth.other_assets
        /\ data'.income = data.income
        /\ data'.fixed_expenses = data.fixed_expenses
        /\ data'.variable_expenses = data.variable_expenses
        /\ data'.savings_contributions = data.savings_contributions
        /\ data'.savings_recurring_monthly = data.savings_recurring_monthly
        /\ data'.investment_contributions = data.investment_contributions
        /\ data'.investment_recurring_monthly = data.investment_recurring_monthly
        /\ data'.transactions = data.transactions ]_vars

\* C20's case: no account is left, and a contribution, a recurring
\* contribution and a transaction still name the account A.
C20_Witness ==
  /\ InSession
  /\ ret.op = "action" /\ ret.ok
  /\ data.net_worth.savings_accounts = <<>>
  /\ Len(data.savings_contributions) = 1
  /\ data.savings_contributions[1].account = "A"
  /\ Len(data.savings_recurring_monthly) = 1
  /\ data.savings_recurring_monthly[1].account = "A"
  /\ Len(data.transactions) = 1
  /\ data.transactions[1].account = "A"

-----------------------------------------------------------------------------
(* Properties of the bulk deletes and of the transaction log *)

IsVariableExpense(t) == t.type = "expense" /\ t.category = "variable"

\* The transactions that are not of type expense and category variable, in log
\* order.
RECURSIVE OtherTransactions(_)
OtherTransactions(ts) ==
  IF ts = <<>> THEN <<>>
  ELSE IF IsVariableExpense(Head(ts)) THEN OtherTransactions(Tail(ts))
  ELSE <<Head(ts)>> \o OtherTransactions(Tail(ts))

\* C21.  Delete All Variable Expenses empties variable_expenses and removes
\* every transaction of type expense and category variable; the other
\* transactions (savings, investment) stay, in their order, and so does every
\* other field of the document.
C21_DeleteAllVariable ==
  [][ (InSession /\ DeleteAllVariableExpenses(AppInputs)) =>
        /\ data'.variable_expenses = <<>>
        /\ \A i \in 1..Len(data'.transactions) : ~IsVariableExpense(data'.transactions[i])
        /\ data'.transactions = OtherTransactions(data.transactions)
        /\ data'.net_worth = data.net_worth
        /\ data'.income = data.income
        /\ data'.fixed_expenses = data.fixed_expenses
        /\ data'.savings_contributions = data.savings_contributions
        /\ data'.savings_recurring_monthly = data.savings_recurring_monthly
        /\ data'.investment_contributions = data.investment_contributions
        /\ data'.investment_recurring_monthly = data.investment_recurring_monthly ]_vars

\* C21's case: the delete-all button has just been used on a document with a
\* recorded contribution, whose transaction is all that is left of the log.
C21_Witness ==
  /\ InSession
  /\ ret.op = "delete_all" /\ ret.ok
  /\ data.variable_expenses = <<>>
  /\ Len(data.transactions) = 1
  /\ data.transactions[1].type \in {"savings", "investment"}
  /\ Len(data.savings_contributions) + Len(data.investment_contributions) = 1

\* C22 (as claimed).  Once the user has clicked Reset All Data and ticked the
\* confirmation checkbox, the in-memory document becomes the zero-valued
\* skeleton and is saved, so that load_data returns the skeleton.
C22_FullReset ==
  (ret.op = "reset") ~> (data = Skeleton /\ ReadDocument(db.tables) = Skeleton)

-----------------------------------------------------------------------------
(* Properties of the migration and of the singleton tables *)

\* The net_worth and income fields of a document are those of these two rows.
ReadsRows(doc, nw, inc) ==
  /\ doc.net_worth.savings_accounts = JsonLoads(nw.savings_accounts)
  /\ doc.net_worth.investment_account = nw.investment_account
  /\ doc.net_worth.other_assets = nw.other_assets
  /\ doc.income.user_salary = inc.user_salary
  /\ doc.income.partner_salary = inc.partner_salary
  /\ doc.income.salary_months = inc.salary_months

\* C23.  The net_worth table and the income table never hold two rows, in the
\* store or in the transaction of a save in progress; after a save_data that
\* committed and after a migration that committed each holds exactly one row;
\* and load_data returns the fields of exactly that row.
C23_SingletonTables ==
  /\ \A t \in {"net_worth", "income"} : Len(db.tables[t]) <= 1 /\ Len(txn[t]) <= 1
  /\ ((ret.op = "save" /\ ret.ok) \/ (ret.op = "migrate" /\ ret.ok)
        \/ ret.op = "load_migrated" \/ pc = "rename" \/ nMigrated > 0) =>
       \A t \in {"net_worth", "income"} : Len(db.tables[t]) = 1
  /\ (ret.op \in {"load", "load_migrated"} /\ Len(db.tables["income"]) = 1) =>
       /\ Len(db.tables["net_worth"]) = 1
       /\ ReadsRows(ret.doc, db.tables["net_worth"][1], db.tables["income"][1])

\* C23's case: a migration, then a save_data of a document other than the
\* migrated one, then load_data, which returns the row of the save.
C23_Witness ==
  /\ ret.op = "load"
  /\ ret.after = <<"save", TRUE>>
  /\ nMigrated = 1
  /\ backupFile.kind = "doc"
  /\ lastSaved # NoDoc
  /\ lastSaved.income # backupFile.doc.income
  /\ ret.doc.income = lastSaved.income
  /\ Len(db.tables["income"]) = 1

\* C24 (as claimed).  When a NOT NULL column rejects a record of the legacy
\* document, the rows migrate_from_json inserted before it (net worth, income,
\* the fixed expenses) remain in the store, and the load_data in which that
\* happened, or the one that follows such a call, returns them.
C24_PartialMigrationKept ==
  [][ ( /\ LoadData
        /\ jsonFile.kind = "doc"
        /\ \/ ret'.exc = "integrity"
           \/ ret.op = "migrate" /\ ret.exc = "integrity" ) =>
        /\ db'.tables["income"] = RowsOf("income", jsonFile.doc)
        /\ db'.tables["fixed_expenses"] = RowsOf("fixed_expenses", jsonFile.doc)
        /\ ret'.doc.income = jsonFile.doc.income
        /\ ret'.doc.fixed_expenses = jsonFile.doc.fixed_expenses ]_vars

\* C25 (as claimed).  When the process stopped after the migration's commit
\* and before the rename, the migration of the next startup inserts the legacy
\* document again and the store holds its rows twice.
C25_CrashRemigrates ==
  [][ ( /\ ret.op = "crash"
        /\ ret.exc = "rename"
        /\ jsonFile.kind = "doc"
        /\ (MigrateFromJson \/ LoadData) ) =>
        /\ nMigrated' = nMigrated + 1
        /\ Len(db'.tables["income"]) = 2
        /\ Len(db'.tables["fixed_expenses"]) = 2 * Len(jsonFile.doc.fixed_expenses) ]_vars

-----------------------------------------------------------------------------
(* The projection and the recurring contributions *)

\* The simulated document with other recurring contributions: none, one
\* replaced or edited, one added.
WithOtherRecurring ==
  { [data EXCEPT !.savings_recurring_monthly = sr, !.investment_recurring_monthly = ir] :
      sr \in { <<>>, <<[amount |-> 50, account |-> "A"]>>,
               Append(data.savings_recurring_monthly, [amount |-> 50, account |-> "A"]) },
      ir \in { <<>>, <<[amount |-> 50]>>,
               Append(data.investment_recurring_monthly, [amount |-> 50]) } }

-----------------------------------------------------------------------------
(* The variable expenses and their transactions *)

\* The (name, date) pairs of a list of records, in the order of the list.
KeysOf(s) == [i \in 1..Len(s) |-> <<s[i].name, s[i].date>>]

\* C27.  Within one session, starting from the empty document, after any
\* sequence of add, edit, delete and delete-all variable-expense operations the
\* (name, date) pairs of variable_expenses and those of the transactions of
\* type expense and category variable are the same multiset; both lists have
\* the same number of entries.
C27_SameKeysInSession ==
  InSession =>
    /\ SameBag(KeysOf(data.variable_expenses), KeysOf(ExpenseLog(data.transactions)))
    /\ Len(data.variable_expenses) = Len(ExpenseLog(data.transactions))

\* C27's case: two expenses added under the same name and date, the second
\* then edited to the empty name and another date: the edit has rewritten the
\* transaction of the first.
C27_Witness ==
  /\ InSession
  /\ ret.op = "action" /\ ret.ok
  /\ KeysOf(data.variable_expenses) = << <<"A", "d1">>, <<"", "d2">> >>
  /\ KeysOf(ExpenseLog(data.transactions)) = << <<"", "d2">>, <<"A", "d1">> >>

\* C28 (as claimed).  In every document a session holds, also the one
\* load_data returned after the document of an earlier session was saved,
\* every variable expense has a transaction of type expense and category
\* variable with its name and its date.
C28_CorrelationSurvivesReload ==
  data # NoData =>
    \A i \in 1..Len(data.variable_expenses) :
       MatchingTransactions(data.transactions, data.variable_expenses[i]) # {}

\* Every record of s is still in t, at its position and unchanged.
IsPrefix(s, t) == Len(s) <= Len(t) /\ SubSeq(t, 1, Len(s)) = s

\* The transactions of type savings or investment, in log order.
RECURSIVE ContributionLog(_)
ContributionLog(ts) ==
  IF ts = <<>> THEN <<>>
  ELSE IF Head(ts).type \in {"savings", "investment"}
         THEN <<Head(ts)>> \o ContributionLog(Tail(ts))
         ELSE ContributionLog(Tail(ts))

\* C29.  No handler of the pages removes or changes an entry of
\* savings_contributions or investment_contributions or a transaction of type
\* savings or investment: after every user action the old entries are still
\* there, in their order, with new ones only appended; and the edit, delete
\* and delete-all of the variable expenses leave every transaction that is not
\* of type expense and category variable as it was.
C29_ContributionsAppendOnly ==
  [][ (InSession /\ pc' = "idle") =>
        /\ IsPrefix(data.savings_contributions, data'.savings_contributions)
        /\ IsPrefix(data.investment_contributions, data'.investment_contributions)
        /\ IsPrefix(ContributionLog(data.transactions), ContributionLog(data'.transactions))
        /\ \/ OtherTransactions(data'.transactions) = OtherTransactions(data.transactions)
           \/ ~( \/ DeleteVariableExpense(AppInputs)
                 \/ EditVariableExpense(AppInputs)
                 \/ DeleteAllVariableExpenses(AppInputs) ) ]_vars

\* C29's case: the variable expenses have just been deleted from a document
\* with a recorded savings contribution; the contribution and its transaction
\* are still there, in memory and in the store.
C29_Witness ==
  /\ InSession
  /\ ret.op = "delete_all" /\ ret.ok
  /\ Len(data.savings_contributions) = 1
  /\ data.savings_contributions[1].amount = 1
  /\ ContributionLog(data.transactions) = data.transactions
  /\ Len(data.transactions) = 1
  /\ data.transactions[1].type = "savings"
  /\ data.transactions[1].amount = 1
  /\ db.tables = ImageOf(data)

-----------------------------------------------------------------------------
(* The totals of a migrated legacy document *)

\* C30 (as claimed).  For every legacy document, also one that holds its
\* savings in the single value savings_account, the total savings and the
\* current net worth of the document load_data returns after the migration are
\* those of the legacy document.
C30_MigrationKeepsTotals ==
  (ret.op = "load_migrated" /\ backupFile.kind = "doc") =>
    /\ calculate_total_savings_json(ret.doc.net_worth)
         = calculate_total_savings_json(backupFile.doc.net_worth)
    /\ calculate_current_net_worth_json(ret.doc.net_worth)
         = calculate_current_net_worth_json(backupFile.doc.net_worth)

====
